---- MODULE Spec2Model ----
(***************************************************************************)
(* A model of the FEVS scripts:                                            *)
(*   fevs_analysis.py  - load a CSV of survey responses, coerce, aggregate *)
(*                       per question and per group, headline metrics,     *)
(*                       visual summary, CSV exports;                      *)
(*   download_fevs.py  - probe a list of candidate URLs;                   *)
(*   analyze_pdf.py    - extract the text and the tables of a PDF.         *)
(* Each script runs top to bottom once; pc / dl_pc / pdf_pc is its         *)
(* position.                                                               *)
(*                                                                         *)
(* Numbers: CSV cells are strings, pd.to_numeric parses them.  A numeric   *)
(* cell is <<v>> or NaN (<<>>).  Percentages and means are exact rationals *)
(* written as integers in units of 1/Unit, so 100% is 100 * Unit.          *)
(***************************************************************************)
EXTENDS Integers, Sequences, FiniteSets, TLC

VARIABLES
    fileExists,               \* whether fevs_file is on disk
    csv,                      \* the content of fevs_file: header and rows
    pc,                       \* position of fevs_analysis.py
    df,                       \* the DataFrame (Unbound before the load)
    engagement_results,       \* dict question -> metrics, insertion ordered
    summary_df,               \* the sorted summary table
    overall_engagement,
    size_comparison,
    super_df,
    pct_considering_leaving,
    files,                    \* artifacts written by fevs_analysis.py
    console,                  \* notable messages printed by fevs_analysis.py
    exception,                \* the uncaught exception that ended the run
    dl_pc,                    \* position of download_fevs_interactive
    dl_i,                     \* loop index into possible_urls (1-based)
    dl_tried,                 \* the requests made so far, in order
    dl_disk,                  \* files written by the downloader
    dl_result,                \* the return value of download_fevs_interactive
    dl_held,                  \* resources the downloader holds open
    pdf_pc,                   \* position of analyze_pdf.py
    pdf_doc,                  \* the PDF at pdf_path: its pages, or NoPdf
    pdf_held,                 \* resources analyze_pdf.py holds open
    full_text,                \* number of pages whose text was appended
    all_tables,               \* the pages of the extracted tables, in order
    pdf_files,                \* files written by analyze_pdf.py
    pdf_exception             \* the uncaught exception that ended its run

vars == <<fileExists, csv, pc, df, engagement_results, summary_df,
          overall_engagement, size_comparison, super_df,
          pct_considering_leaving, files, console, exception,
          dl_pc, dl_i, dl_tried, dl_disk, dl_result, dl_held,
          pdf_pc, pdf_doc, pdf_held, full_text, all_tables, pdf_files,
          pdf_exception>>

analysisVars == <<fileExists, csv, pc, df, engagement_results, summary_df,
                  overall_engagement, size_comparison, super_df,
                  pct_considering_leaving, files, console, exception>>

downloadVars == <<dl_pc, dl_i, dl_tried, dl_disk, dl_result, dl_held>>

pdfVars == <<pdf_pc, pdf_doc, pdf_held, full_text, all_tables, pdf_files,
             pdf_exception>>

---------------------------------------------------------------------------
(* Bounds of the model *)

MaxRows == 3

NumQuestions == 3

MaxUrls == 3

MaxPages == 2

---------------------------------------------------------------------------
(* Values *)

Unbound == [kind |-> "unbound"]      \* a Python name not yet assigned

NanValue == [kind |-> "nan"]         \* a float NaN

Num(v) == [kind |-> "num", v |-> v]  \* a number, in units of 1/Unit

Frame(rows) == [kind |-> "frame", rows |-> rows]   \* a DataFrame of result rows

Dict(items) == [kind |-> "dict", items |-> items]  \* a dict, keys in Questions order

Bound(x) == x.kind # "unbound"

NaN == <<>>                          \* a missing numeric cell

RECURSIVE Factorial(_)
Factorial(n) == IF n <= 1 THEN 1 ELSE n * Factorial(n - 1)

Unit == Factorial(MaxRows) * Factorial(NumQuestions)

Range(s) == {s[i] : i \in DOMAIN s}

RECURSIVE SumSeq(_)
SumSeq(s) == IF s = <<>> THEN 0 ELSE s[1] + SumSeq(Tail(s))

---------------------------------------------------------------------------
(* Configuration of fevs_analysis.py *)

engagement_vars == <<"Q40", "Q12", "Q42", "Q69", "Q11", "Q13", "Q14", "Q15">>

Questions == SubSeq(engagement_vars, 1, NumQuestions)

turnover_var == "DLEAVING"

Columns == Range(Questions) \cup {"DAGENCYSZ", "DSUPER", turnover_var}

PositiveThreshold == 2

---------------------------------------------------------------------------
(* Column coercion: pd.to_numeric(..., errors='coerce') *)

DecimalDigits == <<"0", "1", "2", "3", "4", "5", "6", "7", "8", "9">>

\* The coercion with unparseable cells filled with 0 instead of NaN.
ToNumericZeroFill(s) ==
    IF \E d \in DOMAIN DecimalDigits : DecimalDigits[d] = s
    THEN <<(CHOOSE d \in DOMAIN DecimalDigits : DecimalDigits[d] = s) - 1>>
    ELSE <<0>>

\* A cell that parses as a number becomes <<v>>; a blank, a skip code or any
\* other text becomes NaN.  (One-digit literals are the ones the model uses.)
ToNumeric(s) ==
    IF \E d \in DOMAIN DecimalDigits : DecimalDigits[d] = s
    THEN <<(CHOOSE d \in DOMAIN DecimalDigits : DecimalDigits[d] = s) - 1>>
    ELSE NaN

NumericColumn(table, c) ==
    [i \in 1..Len(table.rows) |-> ToNumeric(table.rows[i][c])]

\* df[f'{var}_numeric'] = ... for every configured question present
CoerceColumns(table) ==
    [table EXCEPT !.numeric =
        [q \in Range(Questions) \cap table.columns |-> NumericColumn(table, q)]]

---------------------------------------------------------------------------
(* Per-question aggregation over the rows idx of a numeric column *)

\* .dropna(): the rows of idx whose cell is a number
ValidIdx(col, idx) == {i \in idx : col[i] # NaN}

RECURSIVE SumCells(_, _, _)
SumCells(col, idx, i) ==
    IF i = 0 THEN 0
    ELSE (IF i \in ValidIdx(col, idx) THEN col[i][1] ELSE 0)
         + SumCells(col, idx, i - 1)

\* ((valid <= 2).sum() / len(valid)) * 100, for len(valid) > 0
PctPositive(col, idx) ==
    (Cardinality({i \in ValidIdx(col, idx) : col[i][1] <= PositiveThreshold})
        * 100 * Unit) \div Cardinality(ValidIdx(col, idx))

\* valid.mean(), for len(valid) > 0
MeanScore(col, idx) ==
    (SumCells(col, idx, Len(col)) * Unit) \div Cardinality(ValidIdx(col, idx))

AllRows(table) == 1..Len(table.rows)

\* The loop that fills engagement_results: a question is entered only when
\* its column is present and it has at least one valid response.
EngagementResults(table) ==
    [q \in {x \in Range(Questions) :
               /\ x \in table.columns
               /\ ValidIdx(table.numeric[x], AllRows(table)) # {}} |->
        [pct_positive |-> PctPositive(table.numeric[q], AllRows(table)),
         mean_score   |-> MeanScore(table.numeric[q], AllRows(table)),
         n_responses  |-> Cardinality(ValidIdx(table.numeric[q], AllRows(table)))]]

\* pd.DataFrame(engagement_results).T: one row per dict key, insertion order
RECURSIVE SummaryRows(_, _)
SummaryRows(results, qs) ==
    IF qs = <<>> THEN <<>>
    ELSE (IF Head(qs) \in DOMAIN results
          THEN <<[index        |-> Head(qs),
                  pct_positive |-> results[Head(qs)].pct_positive,
                  mean_score   |-> results[Head(qs)].mean_score,
                  n_responses  |-> results[Head(qs)].n_responses]>>
          ELSE <<>>)
         \o SummaryRows(results, Tail(qs))

\* One insertion of the sort: x goes after every element whose key is >= its own.
InsertDesc(sorted, x, by) ==
    LET k == Cardinality({i \in DOMAIN sorted : sorted[i][by] >= x[by]})
    IN  SubSeq(sorted, 1, k) \o <<x>> \o SubSeq(sorted, k + 1, Len(sorted))

\* sort_values(by, ascending=False), default kind='quicksort'.  numpy sorts a
\* run of at most 16 elements by insertion and pandas reverses before and
\* after the argsort for a descending order, so for the few rows of these
\* tables equal keys keep their original order.
RECURSIVE SortValuesDesc(_, _)
SortValuesDesc(s, by) ==
    IF s = <<>> THEN <<>>
    ELSE InsertDesc(SortValuesDesc(SubSeq(s, 1, Len(s) - 1), by), s[Len(s)], by)

\* summary_df['pct_positive'].mean()
OverallEngagement(rows) ==
    SumSeq([i \in DOMAIN rows |-> rows[i].pct_positive]) \div Len(rows)

---------------------------------------------------------------------------
(* Grouped aggregation: the size_engagement and super_engagement loops *)

\* Series.unique(): the distinct values in order of first appearance
RECURSIVE Unique(_)
Unique(s) ==
    IF s = <<>> THEN <<>>
    ELSE LET u == Unique(SubSeq(s, 1, Len(s) - 1))
         IN  IF s[Len(s)] \in Range(u) THEN u ELSE Append(u, s[Len(s)])

Missing == ""       \* a blank CSV field: pandas reads it as NaN

\* The subset as the first run of adjacent rows with the value (a grouping
\* that assumes the rows are sorted by the dimension).
SubsetIdxFirstRun(table, dim, cat) ==
    {i \in 1..Len(table.rows) :
        /\ table.rows[i][dim] = cat
        /\ \A j \in 1..i :
              table.rows[j][dim] = cat
                  \/ \A k \in 1..j : table.rows[k][dim] # cat}

\* df[df[dim] == cat]
SubsetIdx(table, dim, cat) == {i \in AllRows(table) : table.rows[i][dim] = cat}

\* size_results / results: the positive percentages of the questions that
\* have a numeric column and at least one valid response in the subset
RECURSIVE GroupResults(_, _, _)
GroupResults(table, idx, qs) ==
    IF qs = <<>> THEN <<>>
    ELSE (IF /\ Head(qs) \in DOMAIN table.numeric
             /\ ValidIdx(table.numeric[Head(qs)], idx) # {}
          THEN <<PctPositive(table.numeric[Head(qs)], idx)>>
          ELSE <<>>)
         \o GroupResults(table, idx, Tail(qs))

\* np.mean(results)
AvgEngagement(results) == SumSeq(results) \div Len(results)

\* One pass of the loop body per distinct value: a missing value is skipped
\* (pd.notna), and a group is entered only "if results:".
RECURSIVE GroupEngagement(_, _, _)
GroupEngagement(table, dim, cats) ==
    IF cats = <<>> THEN <<>>
    ELSE LET cat     == Head(cats)
             idx     == SubsetIdx(table, dim, cat)
             results == GroupResults(table, idx, Questions)
         IN  (IF cat # Missing /\ results # <<>>
              THEN <<[index          |-> cat,
                      avg_engagement |-> AvgEngagement(results),
                      n_respondents  |-> Cardinality(idx)]>>
              ELSE <<>>)
             \o GroupEngagement(table, dim, Tail(cats))

DimColumn(table, dim) == [i \in 1..Len(table.rows) |-> table.rows[i][dim]]

\* pd.DataFrame(size_engagement).T / pd.DataFrame(super_engagement).T
GroupFrame(table, dim) ==
    GroupEngagement(table, dim, Unique(DimColumn(table, dim)))

---------------------------------------------------------------------------
(* Turnover intent *)

\* (leaving == 1).sum() / leaving.notna().sum() * 100 on numpy integers:
\* 0 / 0 is nan (a RuntimeWarning, and warnings are filtered), not an error.
TurnoverPct(table) ==
    LET leaving == NumericColumn(table, turnover_var)
        notna   == ValidIdx(leaving, AllRows(table))
        yes     == {i \in notna : leaving[i][1] = 1}
    IN  IF notna = {} THEN NanValue
        ELSE Num((Cardinality(yes) * 100 * Unit) \div Cardinality(notna))

---------------------------------------------------------------------------
(* The inputs the model draws for fevs_analysis.py *)

\* The row sequences of a table: between one and n rows.
SeqUpTo(S, n) == UNION {[1..k -> S] : k \in 1..n}

\* Cells of the question columns: the first question from `first`, the
\* others all hold one value from `rest`.
QCells(first, rest) ==
    {[q \in Range(Questions) |-> IF q = Questions[1] THEN a ELSE b] :
        a \in first, b \in rest}

Row(qcells, size, super, leaving) ==
    [c \in Columns |->
        IF c \in Range(Questions) THEN qcells[c]
        ELSE IF c = "DAGENCYSZ" THEN size
        ELSE IF c = "DSUPER" THEN super
        ELSE leaving]

\* Rows that vary the answers: blank, a skip code, codes inside the 1-5
\* scale and a number outside it.
RowsQ == {Row(q, "A", "A", "1") : q \in QCells({"", "X", "2", "3", "6"}, {"", "3"})}

\* Rows that vary the group value (the same one in both dimensions), with
\* no answer at all, or with answers to every question.
RowsG ==
    {Row(q, g, g, "0") : q \in QCells({""}, {""}) \cup QCells({"2", "3"}, {"2"}),
                         g \in {Missing, "A", "B"}}

\* Rows that vary the turnover field.
RowsL == {Row(q, "A", "B", l) : q \in QCells({"2"}, {"2"}), l \in {"", "X", "0", "1"}}

\* Rows for the tables that lack one expected column.
RowsC == {Row(q, "A", "B", l) : q \in QCells({"2", "3"}, {"2"}), l \in {"0", "1"}}

Restrict(r, cols) == [c \in cols |-> r[c]]

Table(cols, rows) ==
    [columns |-> cols, rows |-> [i \in DOMAIN rows |-> Restrict(rows[i], cols)]]

Tables ==
    {Table(Columns, r) : r \in SeqUpTo(RowsQ, MaxRows) \cup SeqUpTo(RowsG, MaxRows)
                                \cup SeqUpTo(RowsL, MaxRows)}
    \cup {Table(Columns \ {c}, r) : c \in Columns, r \in SeqUpTo(RowsC, MaxRows)}

NoFile == [columns |-> {}, rows |-> <<>>]

---------------------------------------------------------------------------
(* fevs_analysis.py, top to bottom *)

InitDownloadIdle ==
    /\ dl_pc = "idle"
    /\ dl_i = 1
    /\ dl_tried = <<>>
    /\ dl_disk = {}
    /\ dl_result = Unbound
    /\ dl_held = {}

InitPdfIdle ==
    /\ pdf_pc = "idle"
    /\ pdf_doc = <<>>
    /\ pdf_held = {}
    /\ full_text = 0
    /\ all_tables = <<>>
    /\ pdf_files = {}
    /\ pdf_exception = "none"

InitAnalysis ==
    /\ \/ fileExists = TRUE /\ csv \in Tables
       \/ fileExists = FALSE /\ csv = NoFile
    /\ pc = "load"
    /\ df = Unbound
    /\ engagement_results = Unbound
    /\ summary_df = Unbound
    /\ overall_engagement = Unbound
    /\ size_comparison = Unbound
    /\ super_df = Unbound
    /\ pct_considering_leaving = Unbound
    /\ files = {}
    /\ console = {}
    /\ exception = "none"

Init == InitAnalysis /\ InitDownloadIdle /\ InitPdfIdle

\* An exception nothing catches: the traceback and the end of the run.
Raise(e) ==
    /\ pc' = "crashed"
    /\ exception' = e

\* The load with the missing file tolerated: an empty frame, and on it goes.
LoadWithoutExit ==
    /\ pc = "load"
    /\ df' = [kind |-> "frame", columns |-> csv.columns, rows |-> csv.rows,
              numeric |-> <<>>]
    /\ pc' = "coerce"
    /\ console' = IF fileExists THEN console
                  ELSE console \cup {"Please download the file manually"}
    /\ UNCHANGED <<fileExists, csv, engagement_results, summary_df,
                   overall_engagement, size_comparison, super_df,
                   pct_considering_leaving, files, exception>>
    /\ UNCHANGED <<downloadVars, pdfVars>>

\* try: df = pd.read_csv(fevs_file) / except FileNotFoundError: ... exit(1)
Load ==
    /\ pc = "load"
    /\ IF fileExists
       THEN /\ df' = [kind |-> "frame", columns |-> csv.columns, rows |-> csv.rows,
                        numeric |-> <<>>]
            /\ pc' = "coerce"
            /\ UNCHANGED console
       ELSE /\ console' = console \cup {"Please download the file manually"}
            /\ pc' = "exit1"
            /\ UNCHANGED df
    /\ UNCHANGED <<fileExists, csv, engagement_results, summary_df,
                   overall_engagement, size_comparison, super_df,
                   pct_considering_leaving, files, exception>>
    /\ UNCHANGED <<downloadVars, pdfVars>>

Coerce ==
    /\ pc = "coerce"
    /\ df' = CoerceColumns(df)
    /\ pc' = "aggregate"
    /\ UNCHANGED <<fileExists, csv, engagement_results, summary_df,
                   overall_engagement, size_comparison, super_df,
                   pct_considering_leaving, files, console, exception>>
    /\ UNCHANGED <<downloadVars, pdfVars>>

Aggregate ==
    /\ pc = "aggregate"
    /\ engagement_results' = Dict(EngagementResults(df))
    /\ pc' = "summary"
    /\ UNCHANGED <<fileExists, csv, df, summary_df,
                   overall_engagement, size_comparison, super_df,
                   pct_considering_leaving, files, console, exception>>
    /\ UNCHANGED <<downloadVars, pdfVars>>

\* summary_df = DataFrame(engagement_results).T.round(2).sort_values(...);
\* an empty dict gives a frame with no 'pct_positive' column: KeyError.
Summarize ==
    /\ pc = "summary"
    /\ IF DOMAIN engagement_results.items = {}
       THEN /\ Raise("KeyError")
            /\ UNCHANGED <<summary_df, overall_engagement>>
       ELSE /\ summary_df' = Frame(SortValuesDesc(
                                SummaryRows(engagement_results.items, Questions),
                                "pct_positive"))
            /\ overall_engagement' = Num(OverallEngagement(summary_df'.rows))
            /\ pc' = "size"
            /\ UNCHANGED exception
    /\ UNCHANGED <<fileExists, csv, df, engagement_results,
                   size_comparison, super_df,
                   pct_considering_leaving, files, console>>
    /\ UNCHANGED <<downloadVars, pdfVars>>

\* if 'DAGENCYSZ' in df.columns: ... size_comparison.sort_values(...)
SizeAnalysis ==
    /\ pc = "size"
    /\ IF "DAGENCYSZ" \in df.columns
       THEN IF GroupFrame(df, "DAGENCYSZ") = <<>>
            THEN /\ Raise("KeyError")
                 /\ UNCHANGED size_comparison
            ELSE /\ size_comparison' = Frame(SortValuesDesc(
                                          GroupFrame(df, "DAGENCYSZ"),
                                          "avg_engagement"))
                 /\ pc' = "super"
                 /\ UNCHANGED exception
       ELSE /\ pc' = "super"
            /\ UNCHANGED <<size_comparison, exception>>
    /\ UNCHANGED <<fileExists, csv, df, engagement_results, summary_df,
                   overall_engagement, super_df,
                   pct_considering_leaving, files, console>>
    /\ UNCHANGED <<downloadVars, pdfVars>>

\* if 'DSUPER' in df.columns: ... super_df = pd.DataFrame(super_engagement).T
SuperAnalysis ==
    /\ pc = "super"
    /\ IF "DSUPER" \in df.columns
       THEN super_df' = Frame(GroupFrame(df, "DSUPER"))
       ELSE UNCHANGED super_df
    /\ pc' = "turnover"
    /\ UNCHANGED <<fileExists, csv, df, engagement_results, summary_df,
                   overall_engagement, size_comparison,
                   pct_considering_leaving, files, console, exception>>
    /\ UNCHANGED <<downloadVars, pdfVars>>

\* if turnover_var in df.columns: ...
TurnoverAnalysis ==
    /\ pc = "turnover"
    /\ IF turnover_var \in df.columns
       THEN pct_considering_leaving' = TurnoverPct(df)
       ELSE UNCHANGED pct_considering_leaving
    /\ pc' = "visualize"
    /\ UNCHANGED <<fileExists, csv, df, engagement_results, summary_df,
                   overall_engagement, size_comparison, super_df,
                   files, console, exception>>
    /\ UNCHANGED <<downloadVars, pdfVars>>

\* The four panels, the scorecard f-string and plt.savefig.  The f-string
\* reads pct_considering_leaving (NameError when never assigned) and then
\* summary_df.index[-2] (IndexError when the summary has one row).
Visualize ==
    /\ pc = "visualize"
    /\ IF ~Bound(pct_considering_leaving)
       THEN /\ Raise("NameError")
            /\ UNCHANGED files
       ELSE IF Len(summary_df.rows) < 2
            THEN /\ Raise("IndexError")
                 /\ UNCHANGED files
            ELSE /\ files' = files \cup {"fevs_analysis_summary.png"}
                 /\ pc' = "export"
                 /\ UNCHANGED exception
    /\ UNCHANGED <<fileExists, csv, df, engagement_results, summary_df,
                   overall_engagement, size_comparison, super_df,
                   pct_considering_leaving, console>>
    /\ UNCHANGED <<downloadVars, pdfVars>>

\* summary_df.to_csv(...); size_comparison.to_csv(...) when there is one
Export ==
    /\ pc = "export"
    /\ files' = files \cup {"fevs_engagement_summary.csv"}
                 \cup (IF "DAGENCYSZ" \in df.columns /\ Len(size_comparison.rows) > 0
                       THEN {"fevs_size_comparison.csv"} ELSE {})
    /\ pc' = "done"
    /\ UNCHANGED <<fileExists, csv, df, engagement_results, summary_df,
                   overall_engagement, size_comparison, super_df,
                   pct_considering_leaving, console, exception>>
    /\ UNCHANGED <<downloadVars, pdfVars>>

Next ==
    \/ Load
    \/ Coerce
    \/ Aggregate
    \/ Summarize
    \/ SizeAnalysis
    \/ SuperAnalysis
    \/ TurnoverAnalysis
    \/ Visualize
    \/ Export

Spec == Init /\ [][Next]_vars

---------------------------------------------------------------------------
(* download_fevs.py *)

possible_urls ==
    <<"https://www.opm.gov/fevs/reports/Datasets/2024_FEVS_Prdf.xlsx",
      "https://www.opm.gov/fevs/public-data-file/2024_FEVS_Prdf.xlsx",
      "https://www.opm.gov/fevs/reports/Datasets/2024_FEVS_Prdf.csv",
      "https://www.opm.gov/fevs/public-data-file/2024_FEVS_Prdf.csv",
      "https://www.opm.gov/fevs/reports/data-files/2024-FEVS-Public-Data-File.csv",
      "https://www.opm.gov/fevs/reports/data-files/2024-FEVS-Public-Data-File.xlsx",
      "https://www.opm.gov/fevs/reports/Datasets/2023_FEVS_Prdf.csv",
      "https://www.opm.gov/fevs/reports/Datasets/2023_FEVS_Prdf.xlsx">>

\* The candidates the model probes: the first MaxUrls of the list.
Urls == SubSeq(possible_urls, 1, MaxUrls)

\* url.endswith('.xlsx')
EndsWithXlsx(url) ==
    url \in {possible_urls[1], possible_urls[2], possible_urls[6], possible_urls[8]}

MinBytes == 10000

\* What session.get can give: an exception, or a response.
GetRaised == [raised |-> TRUE, status_code |-> 0, content_length |-> 0, excel |-> FALSE]

Responses ==
    {[raised |-> FALSE, status_code |-> 404, content_length |-> MinBytes + 1,
      excel |-> FALSE]}
    \cup {[raised |-> FALSE, status_code |-> 200, content_length |-> n, excel |-> x] :
            n \in {MinBytes, MinBytes + 1}, x \in BOOLEAN}

\* The threshold test off by one: at least 10000 bytes.
LargeEnoughInclusive(n) == n >= MinBytes

\* if content_length > 10000
LargeEnough(n) == n > MinBytes

\* 'excel' in content_type or url.endswith('.xlsx')
FileName(url, r) ==
    IF r.excel \/ EndsWithXlsx(url) THEN "2024_FEVS_Prdf.xlsx" ELSE "2024_FEVS_Prdf.csv"

None == [kind |-> "None"]

Str(v) == [kind |-> "str", v |-> v]

InitAnalysisIdle ==
    /\ fileExists = FALSE
    /\ csv = NoFile
    /\ pc = "idle"
    /\ df = Unbound
    /\ engagement_results = Unbound
    /\ summary_df = Unbound
    /\ overall_engagement = Unbound
    /\ size_comparison = Unbound
    /\ super_df = Unbound
    /\ pct_considering_leaving = Unbound
    /\ files = {}
    /\ console = {}
    /\ exception = "none"

InitDownload ==
    /\ InitAnalysisIdle
    /\ InitPdfIdle
    /\ dl_pc = "start"
    /\ dl_i = 1
    /\ dl_tried = <<>>
    /\ dl_disk = {}
    /\ dl_result = Unbound
    /\ dl_held = {}

\* A resource is held from its acquisition (requests.Session(), open(...),
\* pdfplumber.open(...)) until its close() or the __exit__ of its with block.
Acquire(held, r) == held \cup {r}

Release(held, r) == held \ {r}

\* with open(...) as f: <body>: the handle is acquired unless open raises,
\* and __exit__ releases it whether or not the body raised.
WithOpen(held, outcome) ==
    IF outcome = "open_failed" THEN held
    ELSE Release(Acquire(held, "f"), "f")

\* session = requests.Session() ... print("Trying ... possible download URLs")
StartDownload ==
    /\ dl_pc = "start"
    /\ dl_pc' = "loop"
    /\ dl_held' = Acquire(dl_held, "session")
    /\ UNCHANGED <<dl_i, dl_tried, dl_disk, dl_result>>
    /\ UNCHANGED <<analysisVars, pdfVars>>

\* What the save (with open(filename, 'wb') as f: f.write(...)) can do:
\* succeed, fail to open the file, or fail while writing, which leaves a
\* truncated file behind.
SaveOutcomes == {"ok", "open_failed", "write_failed"}

\* The disk after a save: the file replaces one of the same name.
Written(disk, name, url, complete) ==
    {f \in disk : f.name # name}
        \cup {[name |-> name, from |-> url, complete |-> complete]}

\* One pass of the for loop.  Everything from session.get to the return is
\* inside try / except Exception: a failed get and a failed save are both
\* printed and the loop goes on to the next candidate.  (print itself is
\* taken not to fail.)
Probe ==
    /\ dl_pc = "loop"
    /\ dl_i <= Len(Urls)
    /\ \E r \in Responses \cup {GetRaised}, w \in SaveOutcomes :
         LET url     == Urls[dl_i]
             saving  == ~r.raised /\ r.status_code = 200 /\ LargeEnough(r.content_length)
             attempt == [url            |-> url,
                         raised         |-> r.raised,
                         status_code    |-> r.status_code,
                         content_length |-> r.content_length,
                         write          |-> IF saving THEN w ELSE "none"]
         IN  /\ saving \/ w = "ok"      \* no save, no outcome to choose
             /\ dl_tried' = Append(dl_tried, attempt)
             /\ dl_held' = IF saving THEN WithOpen(dl_held, w) ELSE dl_held
             /\ IF saving /\ w = "ok"
                THEN /\ dl_disk' = Written(dl_disk, FileName(url, r), url, TRUE)
                     /\ dl_result' = Str(FileName(url, r))
                     /\ dl_pc' = "returned"
                     /\ UNCHANGED dl_i
                ELSE /\ dl_disk' = IF saving /\ w = "write_failed"
                                   THEN Written(dl_disk, FileName(url, r), url, FALSE)
                                   ELSE dl_disk
                     /\ dl_i' = dl_i + 1
                     /\ UNCHANGED <<dl_result, dl_pc>>
    /\ UNCHANGED <<analysisVars, pdfVars>>

\* The loop is exhausted: the manual-download instructions and return None.
GiveUp ==
    /\ dl_pc = "loop"
    /\ dl_i > Len(Urls)
    /\ dl_result' = None
    /\ dl_pc' = "returned"
    /\ UNCHANGED <<dl_i, dl_tried, dl_disk, dl_held>>
    /\ UNCHANGED <<analysisVars, pdfVars>>

NextDownload ==
    \/ StartDownload
    \/ Probe
    \/ GiveUp

SpecDownload == InitDownload /\ [][NextDownload]_vars

---------------------------------------------------------------------------
(* analyze_pdf.py *)

\* pdf_path names no readable PDF.
NoPdf == [kind |-> "nopdf"]

\* A page: what extract_text() returns for it (a str, or None for a page
\* without text in the pdfplumber versions that return None), and how many
\* tables extract_tables() finds on it.
Pages == [text : {"str", "None"}, tables : 0..1]

PdfDocs ==
    {NoPdf}
    \cup {[kind |-> "pdf", pages |-> ps] :
            ps \in UNION {[1..k -> Pages] : k \in 0..MaxPages}}

InitPdf ==
    /\ InitAnalysisIdle
    /\ InitDownloadIdle
    /\ pdf_pc = "open"
    /\ pdf_doc \in PdfDocs
    /\ pdf_held = {}
    /\ full_text = 0
    /\ all_tables = <<>>
    /\ pdf_files = {}
    /\ pdf_exception = "none"

\* with pdfplumber.open(pdf_path) as pdf: when open raises nothing is held
\* and the traceback ends the script.
PdfOpen ==
    /\ pdf_pc = "open"
    /\ IF pdf_doc = NoPdf
       THEN /\ pdf_exception' = "FileNotFoundError"
            /\ pdf_pc' = "crashed"
            /\ UNCHANGED pdf_held
       ELSE /\ pdf_held' = Acquire(pdf_held, "pdf")
            /\ pdf_pc' = "text"
            /\ UNCHANGED pdf_exception
    /\ UNCHANGED <<pdf_doc, full_text, all_tables, pdf_files>>
    /\ UNCHANGED <<analysisVars, downloadVars>>

\* The index of the first page whose text is None, or 0.
RECURSIVE FirstNone(_, _)
FirstNone(ps, i) ==
    IF i > Len(ps) THEN 0
    ELSE IF ps[i].text = "None" THEN i
    ELSE FirstNone(ps, i + 1)

\* for i, page in enumerate(pdf.pages, 1): full_text += text + "\n\n".
\* None + str raises TypeError inside the with block, whose __exit__ closes
\* the PDF before the traceback.
ExtractText ==
    /\ pdf_pc = "text"
    /\ LET bad == FirstNone(pdf_doc.pages, 1)
       IN  IF bad # 0
           THEN /\ full_text' = bad - 1
                /\ pdf_exception' = "TypeError"
                /\ pdf_held' = Release(pdf_held, "pdf")
                /\ pdf_pc' = "crashed"
           ELSE /\ full_text' = Len(pdf_doc.pages)
                /\ pdf_pc' = "tables"
                /\ UNCHANGED <<pdf_exception, pdf_held>>
    /\ UNCHANGED <<pdf_doc, all_tables, pdf_files>>
    /\ UNCHANGED <<analysisVars, downloadVars>>

\* The pages of the tables found, in page order.
RECURSIVE TablesOf(_, _)
TablesOf(ps, i) ==
    IF i > Len(ps) THEN <<>>
    ELSE (IF ps[i].tables > 0 THEN <<i>> ELSE <<>>) \o TablesOf(ps, i + 1)

\* for i, page in enumerate(pdf.pages, 1): tables = page.extract_tables() ...
ExtractTables ==
    /\ pdf_pc = "tables"
    /\ all_tables' = TablesOf(pdf_doc.pages, 1)
    /\ pdf_pc' = "save_text"
    /\ UNCHANGED <<pdf_doc, pdf_held, full_text, pdf_files, pdf_exception>>
    /\ UNCHANGED <<analysisVars, downloadVars>>

PdfFile(name, n, complete) == [name |-> name, n |-> n, complete |-> complete]

\* with open("pdf_extracted_text.txt", "w", encoding="utf-8") as f:
\*     f.write(full_text)
\* An OSError from open or write leaves both with blocks through __exit__.
SaveText ==
    /\ pdf_pc = "save_text"
    /\ \E w \in SaveOutcomes :
         /\ pdf_files' =
              IF w = "open_failed" THEN pdf_files
              ELSE pdf_files \cup {PdfFile("pdf_extracted_text.txt", 0, w = "ok")}
         /\ IF w = "ok"
            THEN /\ pdf_held' = WithOpen(pdf_held, w)
                 /\ pdf_pc' = "save_tables"
                 /\ UNCHANGED pdf_exception
            ELSE /\ pdf_held' = Release(WithOpen(pdf_held, w), "pdf")
                 /\ pdf_exception' = "OSError"
                 /\ pdf_pc' = "crashed"
    /\ UNCHANGED <<pdf_doc, full_text, all_tables>>
    /\ UNCHANGED <<analysisVars, downloadVars>>

\* if all_tables: for i, df in enumerate(all_tables): df.to_csv(filename).
\* to_csv opens and closes its own handle; the first k tables are written
\* and, when k is not all of them, the next to_csv raises.  Leaving the
\* with block, normally or not, closes the PDF.
SaveTables ==
    /\ pdf_pc = "save_tables"
    /\ \E k \in 0..Len(all_tables) :
         /\ pdf_files' = pdf_files \cup {PdfFile("pdf_table", i, TRUE) : i \in 1..k}
         /\ IF k = Len(all_tables)
            THEN /\ pdf_pc' = "done"
                 /\ UNCHANGED pdf_exception
            ELSE /\ pdf_exception' = "OSError"
                 /\ pdf_pc' = "crashed"
    /\ pdf_held' = Release(pdf_held, "pdf")
    /\ UNCHANGED <<pdf_doc, full_text, all_tables>>
    /\ UNCHANGED <<analysisVars, downloadVars>>

NextPdf ==
    \/ PdfOpen
    \/ ExtractText
    \/ ExtractTables
    \/ SaveText
    \/ SaveTables

SpecPdf == InitPdf /\ [][NextPdf]_vars

---------------------------------------------------------------------------
(* Vocabulary of the properties *)

NoData == [kind |-> "no_data"]            \* an explicit no-data marker

Unavailable == [kind |-> "unavailable"]   \* an explicit "unavailable" marker

Loaded == Bound(df)

Ended == pc \in {"done", "crashed", "exit1"}

\* The configured questions whose column is in the table
PresentQuestions == Range(Questions) \cap df.columns

\* The distinct non-missing values of a dimension
GroupValues(dim) == {df.rows[i][dim] : i \in AllRows(df)} \ {Missing}

\* Rows of group g with a valid response to some configured question
ValidInGroup(dim, g) ==
    {i \in SubsetIdx(df, dim, g) :
        \E q \in DOMAIN df.numeric : df.numeric[q][i] # NaN}

Reported(frame) == {frame.rows[i].index : i \in DOMAIN frame.rows}

GroupedRowCount(frame) ==
    SumSeq([i \in DOMAIN frame.rows |-> frame.rows[i].n_respondents])

---------------------------------------------------------------------------
(* C1: once the per-question aggregation has run, every configured         *)
(* question whose column is present and that has no valid response is in   *)
(* the results, and carries the explicit no-data marker (so it is neither  *)
(* absent nor a numeric 0).                                                *)
C1_NoDataMarker ==
    Bound(engagement_results) =>
        \A q \in PresentQuestions :
            ValidIdx(df.numeric[q], AllRows(df)) = {} =>
                /\ q \in DOMAIN engagement_results.items
                /\ engagement_results.items[q] = NoData

(* C2: a loaded table that lacks an expected column (a configured          *)
(* question, DAGENCYSZ, DSUPER or DLEAVING) never aborts the run: no       *)
(* uncaught exception ends it, and when the run is over it is over at      *)
(* "done" with the visual summary and the summary export written.          *)
C2_FieldMissingNonFatal ==
    (Loaded /\ Columns \ df.columns # {}) =>
        /\ pc # "crashed"
        /\ pc = "done" =>
              {"fevs_analysis_summary.png", "fevs_engagement_summary.csv"}
                  \subseteq files

(* C3: a headline metric whose input is entirely absent is reported as     *)
(* "unavailable": the engagement index when no question has a valid        *)
(* response, the turnover-intent rate when no row has a valid value in the *)
(* turnover field.                                                         *)
C3_HeadlineUnavailable ==
    /\ (Bound(engagement_results) /\ DOMAIN engagement_results.items = {}
            /\ pc \notin {"summary"})
          => overall_engagement = Unavailable
    /\ (Loaded /\ turnover_var \in df.columns
            /\ ValidIdx(NumericColumn(df, turnover_var), AllRows(df)) = {}
            /\ pc \in {"visualize", "export", "done"})
          => pct_considering_leaving = Unavailable

(* C4: in each grouped report, the n_respondents of the reported groups    *)
(* add up to the number of rows with a non-missing value of the dimension. *)
C4_GroupCountsExhaustive ==
    /\ Bound(size_comparison) =>
          GroupedRowCount(size_comparison)
              = Cardinality({i \in AllRows(df) : df.rows[i]["DAGENCYSZ"] # Missing})
    /\ Bound(super_df) =>
          GroupedRowCount(super_df)
              = Cardinality({i \in AllRows(df) : df.rows[i]["DSUPER"] # Missing})

(* C5: in each grouped report, every distinct non-missing value of the     *)
(* dimension is reported, also one with no valid response to any question  *)
(* (which carries the no-data marker as its average).                      *)
C5_EmptyPartitionReported ==
    /\ Bound(size_comparison) =>
          \A g \in GroupValues("DAGENCYSZ") :
              /\ g \in Reported(size_comparison)
              /\ ValidInGroup("DAGENCYSZ", g) = {} =>
                    \E i \in DOMAIN size_comparison.rows :
                        /\ size_comparison.rows[i].index = g
                        /\ size_comparison.rows[i].avg_engagement = NoData
    /\ Bound(super_df) =>
          \A g \in GroupValues("DSUPER") :
              /\ g \in Reported(super_df)
              /\ ValidInGroup("DSUPER", g) = {} =>
                    \E i \in DOMAIN super_df.rows :
                        /\ super_df.rows[i].index = g
                        /\ super_df.rows[i].avg_engagement = NoData

---------------------------------------------------------------------------
(* Scale bounds *)

ScaleLiterals == {"1", "2", "3", "4", "5"}

\* No cell of question q is a number outside the 1-5 scale
AllInScale(q) ==
    \A i \in AllRows(df) : df.rows[i][q] \notin (Range(DecimalDigits) \ ScaleLiterals)

PctInBounds(r) == 0 <= r.pct_positive /\ r.pct_positive <= 100 * Unit

MeanInBounds(r) == 1 * Unit <= r.mean_score /\ r.mean_score <= 5 * Unit

(* C6, as the claim states it: every question with at least one valid      *)
(* response has its percentage in [0, 100] and its mean in [1, 5].         *)
C6_ScaleBounds ==
    /\ Bound(engagement_results) =>
          \A q \in DOMAIN engagement_results.items :
              /\ PctInBounds(engagement_results.items[q])
              /\ MeanInBounds(engagement_results.items[q])
    /\ Bound(summary_df) =>
          \A i \in DOMAIN summary_df.rows :
              /\ PctInBounds(summary_df.rows[i])
              /\ MeanInBounds(summary_df.rows[i])

(* C6, amended: every question with at least one valid response has its    *)
(* percentage in [0, 100], and its mean in [1, 5] when no cell of its      *)
(* column is a number outside the 1-5 scale.                               *)
C6_ScaleBoundsInScale ==
    /\ Bound(engagement_results) =>
          \A q \in DOMAIN engagement_results.items :
              /\ PctInBounds(engagement_results.items[q])
              /\ AllInScale(q) => MeanInBounds(engagement_results.items[q])
    /\ Bound(summary_df) =>
          \A i \in DOMAIN summary_df.rows :
              /\ PctInBounds(summary_df.rows[i])
              /\ AllInScale(summary_df.rows[i].index)
                    => MeanInBounds(summary_df.rows[i])

\* A summary row for an in-scale question with two valid responses, one
\* positive and one not, and an unparseable cell that the coercion dropped.
C6_Witness ==
    /\ Bound(summary_df)
    /\ \E i \in DOMAIN summary_df.rows :
          /\ AllInScale(summary_df.rows[i].index)
          /\ summary_df.rows[i].n_responses = 2
          /\ summary_df.rows[i].pct_positive = 50 * Unit
          /\ \E k \in AllRows(df) : df.rows[k][summary_df.rows[i].index] = "X"

---------------------------------------------------------------------------
(* The downloader *)

\* An attempt that the claim counts as qualifying: HTTP 200 with a body
\* above the threshold
Qualifies(t) == ~t.raised /\ t.status_code = 200 /\ t.content_length > MinBytes

Saved(t) == t.write = "ok"

\* The file `name` on disk is the complete payload fetched from url
StoredFrom(name, url) == [name |-> name, from |-> url, complete |-> TRUE] \in dl_disk

InListOrder == \A k \in DOMAIN dl_tried : k <= Len(Urls) /\ dl_tried[k].url = Urls[k]

---------------------------------------------------------------------------
(* C8: when the input file is absent the run halts at the load with the      *)
(* instruction to the operator: no frame is loaded, no later step leaves a   *)
(* result, and no artifact is written.                                       *)
C8_MissingFileHalts ==
    ~fileExists =>
        /\ pc \in {"load", "exit1"}
        /\ ~Loaded
        /\ ~Bound(engagement_results)
        /\ ~Bound(summary_df)
        /\ ~Bound(overall_engagement)
        /\ ~Bound(size_comparison)
        /\ ~Bound(super_df)
        /\ ~Bound(pct_considering_leaving)
        /\ files = {}
        /\ exception = "none"
        /\ pc = "exit1" => "Please download the file manually" \in console

\* The run has halted on the missing file.
C8_Witness ==
    /\ ~fileExists
    /\ pc = "exit1"
    /\ "Please download the file manually" \in console

---------------------------------------------------------------------------
(* Ordering of the grouped reports *)

PositionIn(rows, g) == CHOOSE i \in DOMAIN rows : rows[i].index = g

\* frame lists its groups in descending avg_engagement, equal averages in
\* the order the groups have in `original`
StablyDescending(frame, original) ==
    \A i, j \in DOMAIN frame.rows :
        i < j =>
            /\ frame.rows[i].avg_engagement >= frame.rows[j].avg_engagement
            /\ frame.rows[i].avg_engagement = frame.rows[j].avg_engagement
                  => PositionIn(original, frame.rows[i].index)
                         < PositionIn(original, frame.rows[j].index)

(* C9: both grouped reports (organization size, supervisory status) list   *)
(* their groups in descending order of average engagement, groups of equal *)
(* average in their original order.                                        *)
C9_GroupsSortedDescending ==
    /\ Bound(size_comparison) =>
          StablyDescending(size_comparison, GroupFrame(df, "DAGENCYSZ"))
    /\ Bound(super_df) =>
          StablyDescending(super_df, GroupFrame(df, "DSUPER"))

---------------------------------------------------------------------------
(* Order independence *)

RowPermutations ==
    {p \in [AllRows(df) -> AllRows(df)] :
        \A i, j \in AllRows(df) : i # j => p[i] # p[j]}

\* The frame the load and the coercion give for the rows of df in order p
Permuted(p) ==
    CoerceColumns([kind |-> "frame", columns |-> df.columns,
                   rows |-> [i \in AllRows(df) |-> df.rows[p[i]]],
                   numeric |-> <<>>])

SummaryOf(table) ==
    SortValuesDesc(SummaryRows(EngagementResults(table), Questions), "pct_positive")

\* What does not involve the order of the groups of a report
SameValues(t) ==
    /\ Bound(engagement_results) => engagement_results.items = EngagementResults(t)
    /\ Bound(summary_df) =>
          /\ summary_df.rows = SummaryOf(t)
          /\ overall_engagement = Num(OverallEngagement(SummaryOf(t)))
    /\ Bound(pct_considering_leaving) => pct_considering_leaving = TurnoverPct(t)

(* C10, as the claim states it: for every permutation of the rows, what a  *)
(* run that is over has produced (the per-question summary, both grouped   *)
(* reports and the headline metrics) is what the run over the permuted     *)
(* rows produces.                                                          *)
C10_OrderIndependent ==
    (Loaded /\ Ended) =>
        \A p \in RowPermutations :
            /\ SameValues(Permuted(p))
            /\ Bound(size_comparison) =>
                  size_comparison.rows
                      = SortValuesDesc(GroupFrame(Permuted(p), "DAGENCYSZ"),
                                       "avg_engagement")
            /\ Bound(super_df) =>
                  super_df.rows = GroupFrame(Permuted(p), "DSUPER")

(* C10, amended: for every permutation of the rows, a run that is over has *)
(* produced the per-question summary and the headline metrics of the run   *)
(* over the permuted rows, and each grouped report holds the same groups   *)
(* with the same average and the same row count; the order in which a      *)
(* report lists its groups may differ.                                     *)
C10_OrderIndependentValues ==
    (Loaded /\ Ended) =>
        \A p \in RowPermutations :
            /\ SameValues(Permuted(p))
            /\ Bound(size_comparison) =>
                  Range(size_comparison.rows)
                      = Range(GroupFrame(Permuted(p), "DAGENCYSZ"))
            /\ Bound(super_df) =>
                  Range(super_df.rows) = Range(GroupFrame(Permuted(p), "DSUPER"))

\* A finished run over three rows in two groups, the rows of one group not
\* adjacent, with answers that differ from row to row.
C10_Witness ==
    /\ pc = "done"
    /\ Bound(size_comparison)
    /\ Bound(super_df)
    /\ Len(df.rows) = 3
    /\ df.rows[1]["DAGENCYSZ"] = df.rows[3]["DAGENCYSZ"]
    /\ df.rows[1]["DAGENCYSZ"] # df.rows[2]["DAGENCYSZ"]
    /\ df.rows[1][Questions[1]] # df.rows[3][Questions[1]]
    /\ Len(size_comparison.rows) = 2
    /\ Len(super_df.rows) = 2

---------------------------------------------------------------------------
\* The downloader has finished: download_fevs_interactive has returned and
\* the script goes on to its last prints only.
DownloadFinished == dl_pc = "returned"

\* analyze_pdf.py has finished, normally or by a traceback.
PdfFinished == pdf_pc \in {"done", "crashed"}

\* What the PDF extractor holds when it has finished.
PdfReleased == PdfFinished => pdf_held = {}

(***************************************************************************)
(* C11: every resource a script acquires (the HTTP session and the output  *)
(* file handle of the downloader, the opened PDF and the output file       *)
(* handles of the PDF extractor) has been released by the time the script  *)
(* finishes, on every exit path: success, exhaustion of the candidates,    *)
(* early failure by exception.                                             *)
(***************************************************************************)
C11_ScopedResources ==
    /\ DownloadFinished => dl_held = {}
    /\ PdfReleased

====
